---- MODULE Spec2Model ----
(***************************************************************************)
(* Model of the AI-Interview-Studio dialogue orchestrator (src/main.py):   *)
(* the process-wide session_state, the /start and /chat handlers, the      *)
(* panel-reply parser, the final report generator and /upload_hr_pdf.      *)
(*                                                                         *)
(* Text is a sequence of one-character strings, so that strip, startswith, *)
(* the substring test and str.replace are computed as Python computes      *)
(* them.                                                                   *)
(***************************************************************************)
EXTENDS Integers, Sequences, FiniteSets, TLC

VARIABLES
    start_time,       \* session_state["start_time"]
    current_q_index,  \* session_state["current_q_index"]
    follow_up_count,  \* session_state["follow_up_count"]
    last_question,    \* session_state["last_question"]
    history,          \* session_state["history"]
    now,              \* the wall clock read by time.time()
    call,             \* what the most recent request did (observation only)
    response,         \* the HTTP response of the most recent request
    ai_text_raw,      \* the raw model output last handed to the parser
    parsed,           \* the parser's result for ai_text_raw
    HR_GUIDE,         \* the guide text loaded from the HR PDF
    finished          \* a /chat since the last /start went to the report
                      \* (observation only: the code keeps no such flag)

vars == <<start_time, current_q_index, follow_up_count, last_question,
          history, now, call, response, ai_text_raw, parsed, HR_GUIDE, finished>>

session == <<start_time, current_q_index, follow_up_count, last_question,
             history, now, call, response, HR_GUIDE, finished>>

----------------------------------------------------------------------------
(* Bounds of the model *)

\* number of fragments a raw model output is composed of (parser runs)
MaxPieces == 3
\* /chat is not taken on a live session once history holds this many Turns
MaxTurns == 2
\* number of clock steps
MaxTicks == 2

----------------------------------------------------------------------------
(* Text *)

HR_MARKER == <<"[", "H", "R", "_", "M", "A", "N", "A", "G", "E", "R", "]">>

TECH_MARKER == <<"[", "T", "E", "C", "H", "_", "L", "E", "A", "D", "]">>

END_TOKEN ==
    <<"<", "E", "N", "D", "_", "I", "N", "T", "E", "R", "V", "I", "E", "W", ">">>

\* characters str.strip() / str.lstrip() remove
Whitespace == {" ", "\t", "\n", "\r"}

\* str.lstrip()
RECURSIVE LStrip(_)
LStrip(s) ==
    IF s = <<>> THEN s
    ELSE IF Head(s) \in Whitespace THEN LStrip(Tail(s))
    ELSE s

\* str.rstrip()
RECURSIVE RStrip(_)
RStrip(s) ==
    IF s = <<>> THEN s
    ELSE IF s[Len(s)] \in Whitespace THEN RStrip(SubSeq(s, 1, Len(s) - 1))
    ELSE s

\* str.strip()
Strip(s) == LStrip(RStrip(s))

\* str.startswith(p)
StartsWith(s, p) == Len(s) >= Len(p) /\ \A k \in 1..Len(p) : s[k] = p[k]

\* s[n:]
DropFirst(s, n) == SubSeq(s, n + 1, Len(s))

\* t occurs in s at index i
OccursAt(s, t, i) ==
    /\ i + Len(t) - 1 <= Len(s)
    /\ \A k \in 1..Len(t) : s[i + k - 1] = t[k]

\* `t in s`
Contains(s, t) == \E i \in 1..Len(s) : OccursAt(s, t, i)

\* s.replace(t, ""): one left-to-right pass over non-overlapping occurrences
RECURSIVE Remove(_, _)
Remove(s, t) ==
    IF Len(s) < Len(t) THEN s
    ELSE IF StartsWith(s, t) THEN Remove(DropFirst(s, Len(t)), t)
    ELSE <<Head(s)>> \o Remove(Tail(s), t)

----------------------------------------------------------------------------
(* parse_panel_speaker_and_text *)

\* the unmarked fallback slices like the marked branches do
ParseSlicesUnmarked(raw) ==
    LET r == Strip(raw)
        speaker_role == IF StartsWith(r, TECH_MARKER) THEN "Tech Lead" ELSE "HR Manager"
        text ==
            IF StartsWith(r, TECH_MARKER) THEN LStrip(DropFirst(r, Len(TECH_MARKER)))
            ELSE LStrip(DropFirst(r, Len(HR_MARKER)))
    IN  [speaker_role |-> speaker_role,
         text |-> Strip(Remove(text, END_TOKEN)),
         interview_done |-> Contains(text, END_TOKEN)]

\* both marked branches slice by the length of "[HR_MANAGER]"
ParseOneSliceLength(raw) ==
    LET r == Strip(raw)
        speaker_role == IF StartsWith(r, TECH_MARKER) THEN "Tech Lead" ELSE "HR Manager"
        text ==
            IF StartsWith(r, HR_MARKER) \/ StartsWith(r, TECH_MARKER)
            THEN LStrip(DropFirst(r, Len(HR_MARKER)))
            ELSE r
    IN  [speaker_role |-> speaker_role,
         text |-> Strip(Remove(text, END_TOKEN)),
         interview_done |-> Contains(text, END_TOKEN)]

\* the unmarked fallback names the voice map's "Default" instead of a panelist
ParseUnmarkedDefault(raw) ==
    LET r == Strip(raw)
        speaker_role ==
            IF StartsWith(r, HR_MARKER) THEN "HR Manager"
            ELSE IF StartsWith(r, TECH_MARKER) THEN "Tech Lead"
            ELSE "Default"
        text ==
            IF StartsWith(r, HR_MARKER) THEN LStrip(DropFirst(r, Len(HR_MARKER)))
            ELSE IF StartsWith(r, TECH_MARKER) THEN LStrip(DropFirst(r, Len(TECH_MARKER)))
            ELSE r
    IN  [speaker_role |-> speaker_role,
         text |-> Strip(Remove(text, END_TOKEN)),
         interview_done |-> Contains(text, END_TOKEN)]

parse_panel_speaker_and_text(raw) ==
    LET r == Strip(raw)
        speaker_role ==
            IF StartsWith(r, HR_MARKER) THEN "HR Manager"
            ELSE IF StartsWith(r, TECH_MARKER) THEN "Tech Lead"
            ELSE "HR Manager"
        text ==
            IF StartsWith(r, HR_MARKER) THEN LStrip(DropFirst(r, Len(HR_MARKER)))
            ELSE IF StartsWith(r, TECH_MARKER) THEN LStrip(DropFirst(r, Len(TECH_MARKER)))
            ELSE r
    IN  [speaker_role |-> speaker_role,
         text |-> Strip(Remove(text, END_TOKEN)),
         interview_done |-> Contains(text, END_TOKEN)]

----------------------------------------------------------------------------
(* Parser runs: the raw output is any concatenation of up to MaxPieces     *)
(* fragments                                                               *)

Pieces ==
    { <<" ">>, <<"a">>, HR_MARKER, TECH_MARKER, END_TOKEN,
      SubSeq(END_TOKEN, 1, 5), SubSeq(END_TOKEN, 6, Len(END_TOKEN)) }

RECURSIVE Compose(_)
Compose(n) ==
    IF n = 0 THEN {<<>>}
    ELSE LET S == Compose(n - 1) IN S \cup {p \o s : p \in Pieces, s \in S}

RawStrings == Compose(MaxPieces)

NotParsed == [speaker_role |-> "", text |-> <<>>, interview_done |-> FALSE]

----------------------------------------------------------------------------
(* Configuration and session records *)

MAX_INTERVIEW_DURATION == 300

\* HR_COMPETENCIES, in percent
WeightTechnical == 40
WeightCommunication == 30
WeightProblemSolving == 20
WeightCulturalFit == 10

\* the epoch clock is far beyond the ceiling when the process starts
BootTime == 2 * MAX_INTERVIEW_DURATION

TickLen == MAX_INTERVIEW_DURATION

Turn(role, panelist, text) == [role |-> role, panelist |-> panelist, text |-> text]

\* "Come again? I didn't hear anything."
ClarificationText == <<"C", "o", "m", "e", " ", "a", "g", "a", "i", "n", "?">>

\* no report model call was made
NoReportCall == [kind |-> "none"]

\* which collaborators one run of a handler called, and what they answered
NoTrace ==
    [stt_calls |-> 0, stt_ok |-> FALSE, user_text |-> <<>>,
     llm_calls |-> 0, llm_ok |-> FALSE,
     report_calls |-> 0, rep |-> NoReportCall, hist_at_report |-> <<>>]

NoCall ==
    [op |-> "none", at |-> 0, elapsed |-> 0, hist_before |-> <<>>,
     was_finished |-> FALSE, trace |-> NoTrace]

NoResponse == [status |-> 0, body |-> [none |-> TRUE]]

----------------------------------------------------------------------------
(* What the external services may answer *)

\* the speech-to-text provider: it raises, or returns a text
AudioOutcomes ==
    { [ok |-> FALSE, text |-> <<>>],
      [ok |-> TRUE, text |-> <<>>],
      [ok |-> TRUE, text |-> <<" ", "\n">>],
      [ok |-> TRUE, text |-> <<" ", "o", "k", " ">>] }

\* the panel language model: it raises, or returns a message content
PanelContents ==
    { TECH_MARKER \o <<" ", "a">>,
      HR_MARKER \o <<" ", "a", " ">> \o END_TOKEN,
      <<"a">>,
      <<>>,
      HR_MARKER,
      END_TOKEN,
      SubSeq(END_TOKEN, 1, 5) \o END_TOKEN \o SubSeq(END_TOKEN, 6, Len(END_TOKEN)) }

PanelOutcomes ==
    {[ok |-> FALSE, content |-> <<>>]} \cup {[ok |-> TRUE, content |-> c] : c \in PanelContents}

Number(v) == [type |-> "number", value |-> v]

\* objects the report model may return; overall_score is in hundredths
ReportObjects ==
    { [scores |-> <<10, 5, 0, 5>>, overall_score |-> Number(600), recommendation |-> "Hire"],
      [scores |-> <<10, 10, 10, 10>>, overall_score |-> Number(0), recommendation |-> "No Hire"],
      [scores |-> <<5, 5, 5, 5>>, recommendation |-> "Weak Hire"],
      [scores |-> <<5, 5, 5, 5>>, overall_score |-> [type |-> "string", value |-> 0],
       recommendation |-> "Weak Hire"],
      [scores |-> <<5, 5, 5, 5>>, overall_score |-> Number(500)] }

\* the report language model: it raises, returns text that is no JSON, or an object
ReportOutcomes ==
    { [kind |-> "raise"], [kind |-> "text"] } \cup
    { [kind |-> "json", obj |-> o] : o \in ReportObjects }

----------------------------------------------------------------------------
(* stt_handler.transcribe_file *)

transcribe_file(audio) ==
    IF ~audio.ok THEN [raised |-> TRUE, transcript |-> <<>>]
    ELSE [raised |-> FALSE, transcript |-> Strip(audio.text)]

----------------------------------------------------------------------------
(* generate_final_report *)

\* the weighted overall score the prompt asks for, in hundredths
WeightedScore(scores) ==
    WeightTechnical * scores[1] + WeightCommunication * scores[2]
        + WeightProblemSolving * scores[3] + WeightCulturalFit * scores[4]

\* "{:.1f}": hundredths to the nearest tenth (no value of the model is a tie)
OneDecimal(h) == (h + 5) \div 10

\* the text of the last Candidate Turn, "" when there is none
LastCandidateText(h) ==
    LET idx == {i \in 1..Len(h) : h[i].role = "Candidate"}
    IN  IF idx = {} THEN <<>>
        ELSE h[CHOOSE i \in idx : \A j \in idx : j <= i].text

ReportFailure == [status |-> 500, body |-> [error |-> "Failed to generate report"]]

\* the try block raises: the call, json.loads, a missing key or the format
ReportRaises(rep) ==
    \/ rep.kind # "json"
    \/ "overall_score" \notin DOMAIN rep.obj
    \/ rep.obj.overall_score.type # "number"
    \/ "recommendation" \notin DOMAIN rep.obj

\* a failed report still answers as a finished interview, with what was parsed
GenerateReportPartial(h, rep) ==
    IF ReportRaises(rep)
    THEN [history |-> h,
          response |->
            [status |-> 200,
             body |-> [user_transcript |-> LastCandidateText(h),
                       speaker_role |-> "HR Manager",
                       is_end |-> TRUE,
                       report |-> IF rep.kind = "json" THEN rep.obj ELSE [scores |-> <<>>]]]]
    ELSE [history |-> h,
          response |->
            [status |-> 200,
             body |->
               [user_transcript |-> LastCandidateText(h),
                ai_response_text |->
                    [overall |-> OneDecimal(rep.obj.overall_score.value),
                     result |-> rep.obj.recommendation],
                speaker_role |-> "HR Manager",
                is_end |-> TRUE,
                report |-> rep.obj]]]

generate_final_report(h, rep) ==
    IF ReportRaises(rep)
    THEN [history |-> h, response |-> ReportFailure]
    ELSE [history |-> h,
          response |->
            [status |-> 200,
             body |->
               [user_transcript |-> LastCandidateText(h),
                ai_response_text |->
                    [overall |-> OneDecimal(rep.obj.overall_score.value),
                     result |-> rep.obj.recommendation],
                speaker_role |-> "HR Manager",
                is_end |-> TRUE,
                report |-> rep.obj]]]

----------------------------------------------------------------------------
(* POST /chat *)

\* what one run of a handler leaves behind: the session fields it may write,
\* its response, and which collaborators it called
\* (tts_handler.synthesize catches every exception and returns bytes, so the
\* ai_audio_base64 field is always present and is left out of the bodies)
Outcome(h, lq, resp) ==
    [history |-> h, last_question |-> lq, response |-> resp,
     trace |-> NoTrace, raw |-> <<>>, parsed |-> NotParsed]

\* a ceiling one clock step too high
TimedOutLate(elapsed_time) == elapsed_time > MAX_INTERVIEW_DURATION + TickLen

\* elapsed_time > MAX_INTERVIEW_DURATION
TimedOut(elapsed_time) == elapsed_time > MAX_INTERVIEW_DURATION

\* return await generate_final_report(): one outcome per answer of the
\* report model
HandOffToReport(h, lq) ==
    { LET r == generate_final_report(h, rep)
      IN  [Outcome(r.history, lq, r.response) EXCEPT
              !.trace.report_calls = 1, !.trace.rep = rep,
              !.trace.hist_at_report = h]
      : rep \in ReportOutcomes }

\* the handler undoes the Candidate Turn it appended before the failure
ChatExceptionRollsBack(h, lq, message) ==
    Outcome(IF h # <<>> /\ h[Len(h)].role = "Candidate"
            THEN SubSeq(h, 1, Len(h) - 1) ELSE h,
            lq, [status |-> 500, body |-> [error |-> message]])

\* except Exception as e: the session is left as the try block left it
ChatException(h, lq, message) ==
    Outcome(h, lq, [status |-> 500, body |-> [error |-> message]])

\* silence logged as an (empty) candidate answer before the clarification
SilenceLogsCandidate(h, lq) ==
    Outcome(Append(Append(h, Turn("Candidate", "", <<>>)),
                   Turn("Interviewer", "HR Manager", ClarificationText)), lq,
            [status |-> 200,
             body |-> [user_transcript |-> <<>>,
                       ai_response_text |-> ClarificationText,
                       speaker_role |-> "HR Manager",
                       is_end |-> FALSE]])

\* if not user_text: ask to repeat, the panel does not advance
SilenceBranch(h, lq) ==
    Outcome(Append(h, Turn("Interviewer", "HR Manager", ClarificationText)), lq,
            [status |-> 200,
             body |-> [user_transcript |-> <<>>,
                       ai_response_text |-> ClarificationText,
                       speaker_role |-> "HR Manager",
                       is_end |-> FALSE]])

\* the interviewer message is logged ahead of the answer it replies to
LogInterviewerFirst(h, lq, p) ==
    IF p.text # <<>>
    THEN [history |-> SubSeq(h, 1, Len(h) - 1)
                        \o <<Turn("Interviewer", p.speaker_role, p.text), h[Len(h)]>>,
          last_question |-> p.text]
    ELSE [history |-> h, last_question |-> lq]

\* if ai_text_clean: log the interviewer message and remember it
LogInterviewer(h, lq, p) ==
    IF p.text # <<>>
    THEN [history |-> Append(h, Turn("Interviewer", p.speaker_role, p.text)),
          last_question |-> p.text]
    ELSE [history |-> h, last_question |-> lq]

\* the normal reply of /chat
PanelReply(h, lq, user_text, p) ==
    Outcome(h, lq,
            [status |-> 200,
             body |-> [user_transcript |-> user_text,
                       ai_response_text |-> p.text,
                       speaker_role |-> p.speaker_role,
                       is_end |-> FALSE]])

\* the end of the interview is recognised only when the token ends the output
RouteReplyAnchored(h1, lq, user_text, content) ==
    LET raw == Strip(content)
        p == parse_panel_speaker_and_text(raw)
        logged == LogInterviewer(h1, lq, p)
        at_end ==
            /\ Len(raw) >= Len(END_TOKEN)
            /\ SubSeq(raw, Len(raw) - Len(END_TOKEN) + 1, Len(raw)) = END_TOKEN
        outs ==
            IF at_end
            THEN HandOffToReport(logged.history, logged.last_question)
            ELSE {PanelReply(logged.history, logged.last_question, user_text, p)}
    IN  {[out EXCEPT !.raw = raw, !.parsed = p] : out \in outs}

\* after the panel model answered: parse, log, then report or reply
RouteReply(h1, lq, user_text, content) ==
    LET raw == Strip(content)
        p == parse_panel_speaker_and_text(raw)
        logged == LogInterviewer(h1, lq, p)
        outs ==
            IF p.interview_done
            THEN HandOffToReport(logged.history, logged.last_question)
            ELSE {PanelReply(logged.history, logged.last_question, user_text, p)}
    IN  {[out EXCEPT !.raw = raw, !.parsed = p] : out \in outs}

\* the candidate said something: append it, then ask the panel model once
AnswerBranch(h, lq, user_text) ==
    LET h1 == Append(h, Turn("Candidate", "", user_text))
    IN  UNION { IF ~llm.ok
                THEN {[ChatException(h1, lq, "panel model call failed") EXCEPT
                          !.trace.llm_calls = 1]}
                ELSE {[out EXCEPT !.trace.llm_calls = 1, !.trace.llm_ok = TRUE]
                      : out \in RouteReply(h1, lq, user_text, llm.content)}
                : llm \in PanelOutcomes }

\* after the time check: transcribe, then silence or answer
Transcribed(h, lq, audio) ==
    LET stt_result == transcribe_file(audio)
        user_text == Strip(stt_result.transcript)
        outs ==
            IF stt_result.raised
            THEN {ChatException(h, lq, "OpenAI Transcription failed")}
            ELSE IF user_text = <<>>
            THEN {SilenceBranch(h, lq)}
            ELSE AnswerBranch(h, lq, user_text)
    IN  {[out EXCEPT !.trace.stt_calls = 1,
                     !.trace.stt_ok = ~stt_result.raised,
                     !.trace.user_text = user_text] : out \in outs}

\* every way one /chat request can run in the current state
chat ==
    IF TimedOut(now - start_time)
    THEN HandOffToReport(history, last_question)
    ELSE UNION {Transcribed(history, last_question, audio) : audio \in AudioOutcomes}

Chat ==
    /\ TimedOut(now - start_time) \/ Len(history) < MaxTurns
    /\ \E out \in chat :
        /\ history' = out.history
        /\ last_question' = out.last_question
        /\ response' = out.response
        /\ call' = [op |-> "chat", at |-> now, elapsed |-> now - start_time,
                    hist_before |-> history, was_finished |-> finished,
                    trace |-> out.trace]
        /\ ai_text_raw' = out.raw
        /\ parsed' = out.parsed
        /\ finished' = (finished \/ out.trace.report_calls = 1)
    /\ UNCHANGED <<start_time, current_q_index, follow_up_count, now, HR_GUIDE>>

----------------------------------------------------------------------------
(* GET /start *)

\* the reset forgets to empty the history
ResetKeepsHistory == history

\* the reset at the top of the handler
ResetHistory == <<>>

\* the handler has no try block: a failed model call leaves the reset session
\* and the framework answers 500
StartFailure(h) ==
    Outcome(h, <<>>, [status |-> 500, body |-> [detail |-> "Internal Server Error"]])

\* parse the opening, append it whatever its text, remember it
StartReply(h, content) ==
    LET p == parse_panel_speaker_and_text(content)
    IN  [Outcome(Append(h, Turn("Interviewer", p.speaker_role, p.text)), p.text,
                 [status |-> 200,
                  body |-> [text |-> p.text, speaker_role |-> p.speaker_role]])
            EXCEPT !.raw = content, !.parsed = p]

\* every way one /start request can run
start_interview_endpoint ==
    { [(IF ~llm.ok THEN StartFailure(ResetHistory)
        ELSE StartReply(ResetHistory, llm.content))
          EXCEPT !.trace.llm_calls = 1, !.trace.llm_ok = llm.ok]
      : llm \in PanelOutcomes }

Start ==
    /\ \E out \in start_interview_endpoint :
        /\ start_time' = now
        /\ current_q_index' = 0
        /\ follow_up_count' = 0
        /\ history' = out.history
        /\ last_question' = out.last_question
        /\ response' = out.response
        /\ call' = [op |-> "start", at |-> now, elapsed |-> now - start_time,
                    hist_before |-> history, was_finished |-> finished,
                    trace |-> out.trace]
        /\ ai_text_raw' = out.raw
        /\ parsed' = out.parsed
    /\ finished' = FALSE
    /\ UNCHANGED <<now, HR_GUIDE>>

----------------------------------------------------------------------------
(* load_pdf and POST /upload_hr_pdf *)

\* a PDF file is unreadable, or a sequence of page texts
Pdfs ==
    { [readable |-> FALSE, pages |-> <<>>],
      [readable |-> TRUE, pages |-> << <<"g">> >>] }

RECURSIVE JoinPages(_)
JoinPages(pages) ==
    IF pages = <<>> THEN <<>>
    ELSE Head(pages) \o <<"\n">> \o JoinPages(Tail(pages))

\* the text of every page followed by a newline; "" when anything fails
load_pdf(pdf) == IF pdf.readable THEN JoinPages(pdf.pages) ELSE <<>>

\* every way one /upload_hr_pdf request can run: reading or saving the upload
\* raises and the guide stays, or the saved file is loaded as the new guide
upload_hr_pdf ==
    { [HR_GUIDE |-> HR_GUIDE,
       response |-> [status |-> 500,
                     body |-> [status |-> "error",
                               message |-> "Failed to upload HR guide."]]] }
    \cup
    { [HR_GUIDE |-> load_pdf(pdf),
       response |-> [status |-> 200,
                     body |-> [status |-> "ok",
                               message |-> "HR guide uploaded and loaded successfully."]]]
      : pdf \in Pdfs }

Upload ==
    /\ \E out \in upload_hr_pdf :
        /\ HR_GUIDE' = out.HR_GUIDE
        /\ response' = out.response
    /\ call' = [op |-> "upload", at |-> now, elapsed |-> now - start_time,
                hist_before |-> history, was_finished |-> finished,
                trace |-> NoTrace]
    /\ ai_text_raw' = <<>>
    /\ parsed' = NotParsed
    /\ UNCHANGED <<start_time, current_q_index, follow_up_count, last_question,
                   history, now, finished>>

----------------------------------------------------------------------------
(* The clock and the specifications *)

Tick ==
    /\ now < BootTime + MaxTicks * TickLen
    /\ now' = now + TickLen
    /\ UNCHANGED <<start_time, current_q_index, follow_up_count, last_question,
                   history, call, response, ai_text_raw, parsed, HR_GUIDE, finished>>

InitSession ==
    /\ start_time = 0
    /\ current_q_index = 0
    /\ follow_up_count = 0
    /\ last_question = <<>>
    /\ history = <<>>
    /\ now = BootTime
    /\ call = NoCall
    /\ response = NoResponse
    /\ HR_GUIDE \in {load_pdf(pdf) : pdf \in Pdfs}
    /\ finished = FALSE

Init ==
    /\ InitSession
    /\ ai_text_raw = <<>>
    /\ parsed = NotParsed

Next == Tick \/ Start \/ Chat \/ Upload

Spec == Init /\ [][Next]_vars

\* the parser applied to every composed raw output
InitParse ==
    /\ InitSession
    /\ ai_text_raw \in RawStrings
    /\ parsed = NotParsed

ParseStep ==
    /\ parsed = NotParsed
    /\ parsed' = parse_panel_speaker_and_text(ai_text_raw)
    /\ UNCHANGED <<session, ai_text_raw>>

NextParse == ParseStep

SpecParse == InitParse /\ [][NextParse]_vars

----------------------------------------------------------------------------
(* Properties of the session (checked under Spec) *)

\* the most recent request was a /chat made within the ceiling
ChatWithinCeiling == call.op = "chat" /\ call.elapsed <= MAX_INTERVIEW_DURATION

\* the most recent request was a /chat made beyond the ceiling
ChatBeyondCeiling == call.op = "chat" /\ call.elapsed > MAX_INTERVIEW_DURATION

\* the most recent /chat transcribed the audio to empty text
SilentChat ==
    /\ ChatWithinCeiling
    /\ call.trace.stt_ok
    /\ call.trace.user_text = <<>>

\* C1: a /chat within the ceiling whose transcription is empty or only
\* whitespace appends no Candidate Turn, does not invoke the panel model,
\* appends exactly one Interviewer Turn, the fixed clarification attributed
\* to "HR Manager", and replies with is_end = false.
C1_SilenceAsksToRepeat ==
    SilentChat =>
        /\ history = Append(call.hist_before,
                            Turn("Interviewer", "HR Manager", ClarificationText))
        /\ call.trace.llm_calls = 0
        /\ call.trace.report_calls = 0
        /\ response.status = 200
        /\ response.body.is_end = FALSE
        /\ response.body.speaker_role = "HR Manager"

\* a silent /chat on a session that already holds the opening Turn
C1_Witness == SilentChat /\ Len(call.hist_before) >= 1 /\ call.elapsed > 0

\* C2: a /chat made beyond the 300-second ceiling goes to report generation
\* whatever the audio: nothing is transcribed, the panel model is not invoked
\* and no Turn is appended.
C2_TimeoutRoutesToReport ==
    ChatBeyondCeiling =>
        /\ call.trace.report_calls = 1
        /\ call.trace.stt_calls = 0
        /\ call.trace.llm_calls = 0
        /\ history = call.hist_before
        /\ call.trace.hist_at_report = call.hist_before

\* a timed-out /chat on a session that was started and holds Turns
C2_Witness ==
    /\ ChatBeyondCeiling
    /\ start_time > 0
    /\ Len(call.hist_before) >= 2
    /\ response.status = 200

\* the most recent /chat transcribed an answer and the panel model replied
AnsweredChat ==
    /\ ChatWithinCeiling
    /\ call.trace.stt_ok
    /\ call.trace.user_text # <<>>
    /\ call.trace.llm_calls = 1
    /\ call.trace.llm_ok

CandidateTurn == Turn("Candidate", "", call.trace.user_text)

ParsedTurn == Turn("Interviewer", parsed.speaker_role, parsed.text)

\* C6: when the parsed reply of an answered /chat carries the completion
\* flag, the report generator is invoked instead of a normal reply: the
\* response is never a reply with is_end = false, a non-empty closing text
\* is in history as an Interviewer Turn when the report is built, and a
\* successful response has is_end = true and carries the report.
C6_CompletionHandsOffToReport ==
    (AnsweredChat /\ parsed.interview_done) =>
        /\ call.trace.report_calls = 1
        /\ call.trace.hist_at_report =
              IF parsed.text # <<>>
              THEN call.hist_before \o <<CandidateTurn, ParsedTurn>>
              ELSE call.hist_before \o <<CandidateTurn>>
        /\ history = call.trace.hist_at_report
        /\ response.status \in {200, 500}
        /\ response.status = 500 => response = ReportFailure
        /\ response.status = 200 =>
              /\ response.body.is_end = TRUE
              /\ "report" \in DOMAIN response.body
              /\ response.body.report = call.trace.rep.obj

\* a closing reply with text ended the interview and the report came back
C6_Witness ==
    /\ AnsweredChat
    /\ parsed.interview_done
    /\ parsed.text # <<>>
    /\ response.status = 200
    /\ Len(call.hist_before) >= 1

\* the most recent request was a /start whose panel model call succeeded
StartedOk == call.op = "start" /\ call.trace.llm_ok

\* C7: from any prior session state, a /start whose model call succeeds
\* leaves a history of exactly one Turn, the generated opening Interviewer
\* Turn, the start timestamp at the time of the call, last-question equal to
\* the opening text and both counters at 0.
C7_StartResets ==
    StartedOk =>
        /\ history = <<ParsedTurn>>
        /\ parsed.speaker_role \in {"HR Manager", "Tech Lead"}
        /\ parsed = parse_panel_speaker_and_text(ai_text_raw)
        /\ start_time = call.at
        /\ last_question = parsed.text
        /\ current_q_index = 0
        /\ follow_up_count = 0
        /\ response.status = 200
        /\ response.body.text = parsed.text

\* a /start on top of an earlier session that held several Turns
C7_Witness ==
    /\ StartedOk
    /\ Len(call.hist_before) >= 2
    /\ call.at > BootTime
    /\ call.hist_before[1] # history[1]

\* only the key "error": no reply text, no is_end flag, no report
ErrorOnly(resp) == resp.status = 500 /\ DOMAIN resp.body = {"error"}

\* C8: when the panel model call of a /chat raises after the Candidate Turn
\* was appended, the call is not retried and nothing is rolled back: the
\* Candidate Turn stays last in history, no Interviewer Turn is appended and
\* the response is an error with status 500. When transcription raises,
\* history is unchanged and the response is again an error with status 500.
C8_FailureKeepsPartialHistory ==
    /\ call.op = "chat" => call.trace.llm_calls <= 1 /\ call.trace.stt_calls <= 1
    /\ (call.op = "chat" /\ call.trace.llm_calls = 1 /\ ~call.trace.llm_ok) =>
          /\ call.trace.user_text # <<>>
          /\ history = Append(call.hist_before, CandidateTurn)
          /\ call.trace.report_calls = 0
          /\ ErrorOnly(response)
    /\ (call.op = "chat" /\ call.trace.stt_calls = 1 /\ ~call.trace.stt_ok) =>
          /\ history = call.hist_before
          /\ call.trace.llm_calls = 0
          /\ call.trace.report_calls = 0
          /\ ErrorOnly(response)

\* the panel model failed on a started session
C8_Witness ==
    /\ call.op = "chat"
    /\ call.trace.llm_calls = 1
    /\ ~call.trace.llm_ok
    /\ Len(call.hist_before) >= 1
    /\ history[Len(history)].role = "Candidate"

\* the report model raised, returned no JSON, or an object without a usable
\* overall_score or without a recommendation
ReportUnusable(rep) ==
    \/ rep.kind \in {"raise", "text"}
    \/ /\ rep.kind = "json"
       /\ \/ "overall_score" \notin DOMAIN rep.obj
          \/ "recommendation" \notin DOMAIN rep.obj
          \/ rep.obj.overall_score.type # "number"

\* C9: when report generation fails, the request answers with an error of
\* status 500 that holds no report, no closing text and no is_end flag, and
\* history is as it was when report generation started.
C9_FailedReportIsAnError ==
    (call.trace.report_calls = 1 /\ ReportUnusable(call.trace.rep)) =>
        /\ ErrorOnly(response)
        /\ response.body.error = "Failed to generate report"
        /\ history = call.trace.hist_at_report

\* the report model returned an object without a usable score or label,
\* after an interview with Turns
C9_Witness ==
    /\ call.trace.report_calls = 1
    /\ call.trace.rep.kind = "json"
    /\ ReportUnusable(call.trace.rep)
    /\ Len(history) >= 2

\* C10: every report returned has an overall_score equal to the weighted sum
\* of its four competency scores (weights 0.40/0.30/0.20/0.10); a report
\* inconsistent with that is not returned.
C10_ReturnedScoreIsWeightedSum ==
    (response.status = 200 /\ "report" \in DOMAIN response.body) =>
        response.body.report.overall_score.value
            = WeightedScore(response.body.report.scores)

----------------------------------------------------------------------------
(* Properties of the parser (checked under SpecParse) *)

\* the parser has run on ai_text_raw
ParserRan == parsed # NotParsed

Trimmed == Strip(ai_text_raw)

Unmarked == ~StartsWith(Trimmed, HR_MARKER) /\ ~StartsWith(Trimmed, TECH_MARKER)

\* C3: for every raw output that contains <END_INTERVIEW> anywhere, the
\* completion flag is true and the cleaned text holds no occurrence of the
\* token, also when fragments of the token surround an occurrence.
C3_EndTokenFullyRemoved ==
    (ParserRan /\ Contains(ai_text_raw, END_TOKEN)) =>
        /\ parsed.interview_done
        /\ ~Contains(parsed.text, END_TOKEN)

\* C4 as stated: an unmarked raw output parses to "HR Manager" and to a
\* cleaned text equal to the trimmed input.
C4_UnmarkedKeepsTrimmedInput ==
    (ParserRan /\ Unmarked) =>
        /\ parsed.speaker_role = "HR Manager"
        /\ parsed.text = Trimmed

\* C4 amended: an unmarked raw output parses to "HR Manager"; its cleaned
\* text is the trimmed input when that holds no end token, and otherwise the
\* trimmed input with the token's occurrences removed and trimmed again,
\* with the completion flag set.
C4_UnmarkedFallback ==
    (ParserRan /\ Unmarked) =>
        /\ parsed.speaker_role = "HR Manager"
        /\ ~Contains(Trimmed, END_TOKEN) =>
              parsed.text = Trimmed /\ ~parsed.interview_done
        /\ Contains(Trimmed, END_TOKEN) =>
              parsed.text = Strip(Remove(Trimmed, END_TOKEN)) /\ parsed.interview_done

\* an unmarked output with text around an end token has been parsed
C4_Witness ==
    /\ ParserRan
    /\ Unmarked
    /\ Contains(Trimmed, END_TOKEN)
    /\ parsed.text # <<>>
    /\ parsed.text # Trimmed

\* the text X that follows the marker m at the start of the raw output
AfterMarker(m) == DropFirst(ai_text_raw, Len(m))

BeginsWithMarker(t) == StartsWith(t, HR_MARKER) \/ StartsWith(t, TECH_MARKER)

\* C5 as stated: a raw output "[TECH_LEAD] X" parses to "Tech Lead" and to X
\* with its leading whitespace trimmed (and "[HR_MANAGER] X" to "HR Manager"),
\* and the cleaned text never begins with a marker.
C5_MarkerThenLeftTrimmedText ==
    /\ (ParserRan /\ StartsWith(ai_text_raw, TECH_MARKER)) =>
          /\ parsed.speaker_role = "Tech Lead"
          /\ parsed.text = LStrip(AfterMarker(TECH_MARKER))
          /\ ~BeginsWithMarker(parsed.text)
    /\ (ParserRan /\ StartsWith(ai_text_raw, HR_MARKER)) =>
          /\ parsed.speaker_role = "HR Manager"
          /\ parsed.text = LStrip(AfterMarker(HR_MARKER))
          /\ ~BeginsWithMarker(parsed.text)

\* the cleaned text expected of the remainder x of a marked output
CleanedRemainder(x) ==
    IF Contains(x, END_TOKEN) THEN Strip(Remove(x, END_TOKEN)) ELSE Strip(x)

\* C5 amended: a raw output "[TECH_LEAD] X" parses to "Tech Lead" (and
\* "[HR_MANAGER] X" to "HR Manager"); the cleaned text is X trimmed at both
\* ends when X holds no end token, and otherwise X with the token's
\* occurrences removed, trimmed at both ends; only the one leading marker is
\* removed, so the cleaned text begins with a marker exactly when that
\* remainder does.
C5_MarkerThenCleanedText ==
    /\ (ParserRan /\ StartsWith(ai_text_raw, TECH_MARKER)) =>
          /\ parsed.speaker_role = "Tech Lead"
          /\ parsed.text = CleanedRemainder(AfterMarker(TECH_MARKER))
          /\ parsed.interview_done = Contains(AfterMarker(TECH_MARKER), END_TOKEN)
    /\ (ParserRan /\ StartsWith(ai_text_raw, HR_MARKER)) =>
          /\ parsed.speaker_role = "HR Manager"
          /\ parsed.text = CleanedRemainder(AfterMarker(HR_MARKER))
          /\ parsed.interview_done = Contains(AfterMarker(HR_MARKER), END_TOKEN)

\* "[TECH_LEAD]" directly followed by text has been parsed
C5_Witness ==
    /\ ParserRan
    /\ StartsWith(ai_text_raw, TECH_MARKER)
    /\ Len(ai_text_raw) > Len(TECH_MARKER)
    /\ ai_text_raw[Len(TECH_MARKER) + 1] = "a"
    /\ parsed.text # <<>>

----------------------------------------------------------------------------
(* Properties of the history (checked under Spec) *)

IsPrefix(a, b) == Len(a) <= Len(b) /\ SubSeq(b, 1, Len(a)) = a

\* the Turns the most recent request appended
Appended == SubSeq(history, Len(call.hist_before) + 1, Len(history))

\* C11: between two /start calls history is append-only: every /chat, on
\* any path, keeps the recorded Turns unchanged as a prefix, appends at most
\* two Turns, and when it appends two they are the Candidate Turn and then
\* the Interviewer Turn; report generation and /upload_hr_pdf leave history
\* as it was.
C11_HistoryAppendOnly ==
    /\ call.op = "chat" =>
          /\ IsPrefix(call.hist_before, history)
          /\ Len(Appended) <= 2
          /\ Len(Appended) = 2 =>
                Appended[1].role = "Candidate" /\ Appended[2].role = "Interviewer"
    /\ call.trace.report_calls = 1 =>
          /\ IsPrefix(call.hist_before, call.trace.hist_at_report)
          /\ history = call.trace.hist_at_report
    /\ call.op = "upload" => history = call.hist_before

\* a /chat appended an answer and a reply to a history that held Turns
C11_Witness ==
    /\ call.op = "chat"
    /\ Len(call.hist_before) >= 1
    /\ Len(Appended) = 2

\* C12: every Turn in history has role Candidate or Interviewer; a Candidate
\* Turn has an empty speaker identity and an Interviewer Turn has speaker
\* identity "HR Manager" or "Tech Lead", whatever the panel model returns.
C12_TurnsWellFormed ==
    \A i \in 1..Len(history) :
        \/ history[i].role = "Candidate" /\ history[i].panelist = ""
        \/ /\ history[i].role = "Interviewer"
           /\ history[i].panelist \in {"HR Manager", "Tech Lead"}

\* an unmarked reply was logged after a Candidate Turn, in a history that
\* also holds a Turn of the Tech Lead
C12_Witness ==
    /\ call.op = "chat"
    /\ call.trace.llm_ok
    /\ ParserRan
    /\ Unmarked
    /\ Len(Appended) = 2
    /\ \E i \in 1..Len(history) : history[i].panelist = "Tech Lead"

\* C13: once a /chat has ended the interview (it went to the report, by the
\* end token or by the timeout), every later /chat without a /start in
\* between appends no Turn and does not invoke the panel model.
C13_FinishedIsAbsorbing ==
    (call.op = "chat" /\ call.was_finished) =>
        /\ history = call.hist_before
        /\ call.trace.llm_calls = 0

\* C14: every Turn in history has non-empty text after trimming: neither
\* /start nor /chat appends a Turn with empty text, also when the panel
\* model returns an empty string, whitespace, only a marker or only the end
\* token.
C14_NoEmptyTurn ==
    \A i \in 1..Len(history) : Strip(history[i].text) # <<>>

====
